---- MODULE Spec2Model ----
(***************************************************************************)
(* A model of coinexlib's CoinexAPI client (coinexLib.py): the request     *)
(* construction and signing routine (_make_request, _generate_signature),  *)
(* the endpoint methods that forward to it, and the HTTP exchange.         *)
(*                                                                         *)
(* Text is modelled as a sequence of tokens: a token is an atomic piece of *)
(* text (a literal of the source, or a value supplied by the caller), and  *)
(* concatenation of text is concatenation of token sequences.  The empty   *)
(* string is the empty sequence.                                           *)
(***************************************************************************)
EXTENDS Integers, Sequences, FiniteSets, TLC

VARIABLES
    clients,   \* clients[c]: the fields of CoinexAPI object c (BASE_URL, access_id, secret_key)
    now,       \* the wall clock read by time.time(), in milliseconds
    pc,        \* pc[t]: where caller t is inside its current call
    call,      \* call[t]: the arguments of the _make_request call of caller t
    req,       \* req[t]: the locals of _make_request / _generate_signature of caller t
    http,      \* http[t]: what caller t handed to requests.request, and how often
    outcome,   \* outcome[t]: the response caller t got, and what the call returned or raised
    noted,     \* a request remembered from an earlier call (history variable)
    args       \* args[t]: the named arguments of the public method caller t called

vars == <<clients, now, pc, call, req, http, outcome, noted, args>>

(***************************************************************************)
(* Bounds of the model.                                                    *)
(***************************************************************************)
\* the clock stops ticking at MaxTime (milliseconds)
MaxTime == 10

(***************************************************************************)
(* Python values.                                                          *)
(***************************************************************************)
None == [t |-> "none"]
PyStr(s) == [t |-> "str", s |-> s]
PyInt(n) == [t |-> "int", n |-> n]
PyBool(b) == [t |-> "bool", b |-> b]
\* a dict in insertion order: a sequence of <<key, value>> pairs
PyDict(items) == [t |-> "dict", d |-> items]
PyList(elems) == [t |-> "list", l |-> elems]

\* Python truthiness, as used by `if params:`, `if body`, `if market`
Truthy(v) ==
    CASE v.t = "none" -> FALSE
      [] v.t = "str" -> v.s /= ""
      [] v.t = "int" -> v.n /= 0
      [] v.t = "bool" -> v.b
      [] v.t = "dict" -> Len(v.d) > 0
      [] v.t = "list" -> Len(v.l) > 0

Range(s) == {s[i] : i \in 1..Len(s)}

\* the text of a str object
Text(s) == IF s = "" THEN <<>> ELSE <<s>>

DigitTok(d) ==
    CASE d = 0 -> "0" [] d = 1 -> "1" [] d = 2 -> "2" [] d = 3 -> "3" [] d = 4 -> "4"
      [] d = 5 -> "5" [] d = 6 -> "6" [] d = 7 -> "7" [] d = 8 -> "8" [] d = 9 -> "9"

RECURSIVE Digits(_)
\* str(n) of a non-negative int: its decimal digits
Digits(n) == IF n < 10 THEN <<DigitTok(n)>> ELSE Digits(n \div 10) \o <<DigitTok(n % 10)>>

\* f"{value}": str() of a scalar value
Format(v) ==
    CASE v.t = "none" -> <<"None">>
      [] v.t = "str" -> Text(v.s)
      [] v.t = "int" -> Digits(v.n)
      [] v.t = "bool" -> IF v.b THEN <<"True">> ELSE <<"False">>

\* characters outside ASCII / outside Latin-1 among the tokens of the model
NonLatin1 == {"<U+20BF>"}
NonAscii == NonLatin1 \cup {"<U+00E9>"}

\* json.dumps escapes every non-ASCII character (ensure_ascii=True)
JsonEscape(tok) ==
    CASE tok = "<U+20BF>" -> "\\u20bf"
      [] tok = "<U+00E9>" -> "\\u00e9"
      [] OTHER -> tok

JsonString(s) == <<"\"">> \o [i \in 1..Len(Text(s)) |-> JsonEscape(Text(s)[i])] \o <<"\"">>

RECURSIVE JsonDumps(_), JsonItems(_), JsonElems(_)
\* json.dumps(v) with the default separators ", " and ": "
JsonDumps(v) ==
    CASE v.t = "none" -> <<"null">>
      [] v.t = "str" -> JsonString(v.s)
      [] v.t = "int" -> Digits(v.n)
      [] v.t = "bool" -> IF v.b THEN <<"true">> ELSE <<"false">>
      [] v.t = "dict" -> <<"{">> \o JsonItems(v.d) \o <<"}">>
      [] v.t = "list" -> <<"[">> \o JsonElems(v.l) \o <<"]">>
JsonItems(items) ==
    IF Len(items) = 0 THEN <<>>
    ELSE JsonString(items[1][1]) \o <<": ">> \o JsonDumps(items[1][2])
         \o (IF Len(items) = 1 THEN <<>> ELSE <<", ">> \o JsonItems(Tail(items)))
JsonElems(elems) ==
    IF Len(elems) = 0 THEN <<>>
    ELSE JsonDumps(elems[1])
         \o (IF Len(elems) = 1 THEN <<>> ELSE <<", ">> \o JsonElems(Tail(elems)))

\* str.upper(), on the letters that occur in the model's method names
UpperTok(tok) ==
    CASE tok = "get" -> "GET"
      [] tok = "Get" -> "GET"
      [] tok = "post" -> "POST"
      [] tok = "Post" -> "POST"
      [] OTHER -> tok
Upper(s) == [i \in 1..Len(s) |-> UpperTok(s[i])]

\* whether bytes(s, 'latin-1') succeeds
Latin1Encodable(s) == Range(s) \cap NonLatin1 = {}

(***************************************************************************)
(* The client object and the signer.                                       *)
(***************************************************************************)
BASE_URL == <<"https://api.coinex.com">>

\* CoinexAPI(access_id, secret_key)
CoinexAPI(access_id, secret_key) ==
    [BASE_URL |-> BASE_URL, access_id |-> access_id, secret_key |-> secret_key]

\* _get_timestamp: str(int(time.time() * 1000))
GetTimestamp == Digits(now)

\* bytes(s, 'latin-1'): one byte per character, defined when Latin1Encodable(s)
Latin1Bytes(s) == [latin1 |-> s]

\* hmac.new(key, msg, sha256): an abstract keyed function, injective in key and msg
HmacSha256(key, msg) == [key |-> key, msg |-> msg]

\* .hexdigest().lower()
HexDigestLower(mac) == [hex |-> mac, case |-> "lower"]

\* body_str = json.dumps(body) if body else ''
BodyStr(body) == IF Truthy(body) THEN JsonDumps(body) ELSE <<>>

\* a slip in the order of the parts: the timestamp before the body
PreparedStrTimestampFirst(method, request_path, body_str, timestamp) ==
    method \o request_path \o timestamp \o body_str

\* prepared_str = f"{method}{request_path}{body_str}{timestamp}"
PreparedStr(method, request_path, body_str, timestamp) ==
    method \o request_path \o body_str \o timestamp

\* a slip: the access id mixed into the key of the HMAC
SignedStrKeyedByAccessId(self, prepared_str) ==
    HexDigestLower(HmacSha256(Latin1Bytes(self.access_id \o self.secret_key),
                              Latin1Bytes(prepared_str)))

\* signed_str of _generate_signature
SignedStr(self, prepared_str) ==
    HexDigestLower(HmacSha256(Latin1Bytes(self.secret_key), Latin1Bytes(prepared_str)))

\* whether _generate_signature raises UnicodeEncodeError
SignatureRaises(self, prepared_str) ==
    ~ (Latin1Encodable(self.secret_key) /\ Latin1Encodable(prepared_str))

(***************************************************************************)
(* The request executor.                                                   *)
(***************************************************************************)
RECURSIVE QueryString(_)
\* '&'.join([f"{key}={value}" for key, value in params.items()])
QueryString(items) ==
    IF Len(items) = 0 THEN <<>>
    ELSE Text(items[1][1]) \o <<"=">> \o Format(items[1][2])
         \o (IF Len(items) = 1 THEN <<>> ELSE <<"&">> \o QueryString(Tail(items)))

\* a slip: `if params is not None` in place of `if params`
RequestPathNotNone(endpoint, params) ==
    <<"/v2">> \o endpoint
    \o (IF params /= None THEN <<"?">> \o QueryString(params.d) ELSE <<>>)

\* request_path = f"/v2{endpoint}", plus "?" and the query string `if params`
RequestPath(endpoint, params) ==
    <<"/v2">> \o endpoint
    \o (IF Truthy(params) THEN <<"?">> \o QueryString(params.d) ELSE <<>>)

\* a slip: the secret key sent as the key header
HeadersWithSecret(self, signed_str, timestamp) ==
    << <<"X-COINEX-KEY", self.secret_key>>,
       <<"X-COINEX-SIGN", signed_str>>,
       <<"X-COINEX-TIMESTAMP", timestamp>>,
       <<"Content-Type", <<"application/json; charset=utf-8">> >> >>

\* a slip: the timestamp header read from the clock again
HeadersRereadClock(self, signed_str, timestamp) ==
    << <<"X-COINEX-KEY", self.access_id>>,
       <<"X-COINEX-SIGN", signed_str>>,
       <<"X-COINEX-TIMESTAMP", GetTimestamp>>,
       <<"Content-Type", <<"application/json; charset=utf-8">> >> >>

\* the headers dict of _make_request, in insertion order
Headers(self, signed_str, timestamp) ==
    << <<"X-COINEX-KEY", self.access_id>>,
       <<"X-COINEX-SIGN", signed_str>>,
       <<"X-COINEX-TIMESTAMP", timestamp>>,
       <<"Content-Type", <<"application/json; charset=utf-8">> >> >>

\* the body requests.request(..., json=data) transmits: none for None, else the
\* serialization of data (an empty mapping included)
RequestBody(json) == IF json = None THEN <<>> ELSE JsonDumps(json)

\* a slip: the URL built from the path without its query string
UrlWithoutQuery(self, request_path) ==
    self.BASE_URL \o SubSeq(request_path, 1, 2)

\* url = f"{self.BASE_URL}{request_path}"
Url(self, request_path) == self.BASE_URL \o request_path

\* the value of header `name` in a headers dict
Header(headers, name) ==
    LET i == CHOOSE j \in 1..Len(headers) : headers[j][1] = name IN headers[i][2]

(***************************************************************************)
(* Endpoint methods: each builds params or data and forwards once to       *)
(* _make_request.  An endpoint call is described by the arguments it       *)
(* passes to _make_request.                                                *)
(***************************************************************************)
Forward(api, method, endpoint, params, data) ==
    [api |-> api, method |-> method, endpoint |-> endpoint, params |-> params, data |-> data]

\* a slip: `if x:` in place of `if x is not None:`
RECURSIVE IfNotNoneByTruth(_)
IfNotNoneByTruth(items) ==
    IF Len(items) = 0 THEN <<>>
    ELSE (IF Truthy(items[1][2]) THEN <<items[1]>> ELSE <<>>) \o IfNotNoneByTruth(Tail(items))

\* the items of a dict literal followed by `if x is not None: d[k] = x` lines
RECURSIVE IfNotNone(_)
IfNotNone(items) ==
    IF Len(items) = 0 THEN <<>>
    ELSE (IF items[1][2] /= None THEN <<items[1]>> ELSE <<>>) \o IfNotNone(Tail(items))

\* the items added by `if x: d[k] = x` lines
RECURSIVE IfTruthy(_)
IfTruthy(items) ==
    IF Len(items) = 0 THEN <<>>
    ELSE (IF Truthy(items[1][2]) THEN <<items[1]>> ELSE <<>>) \o IfTruthy(Tail(items))

\* params = {"market": market} if market else {}
MarketOrAll(market) ==
    IF Truthy(market) THEN PyDict(<< <<"market", market>> >>) ELSE PyDict(<<>>)

get_market_status(market) ==
    Forward("get_market_status", <<"GET">>, <<"/spot/market">>, MarketOrAll(market), None)

get_market_transactions(market, limit, last_id) ==
    Forward("get_market_transactions", <<"GET">>, <<"/spot/deals">>,
            PyDict(<< <<"market", market>>, <<"limit", limit>>, <<"last_id", last_id>> >>), None)

get_market_index(market) ==
    Forward("get_market_index", <<"GET">>, <<"/spot/index">>, MarketOrAll(market), None)

get_user_transactions(market, market_type, side, start_time, end_time, page, limit) ==
    Forward("get_user_transactions", <<"GET">>, <<"/spot/user-deals">>,
            PyDict(<< <<"market", market>>, <<"market_type", market_type>>,
                      <<"page", page>>, <<"limit", limit>> >>
                   \o IfTruthy(<< <<"side", side>>, <<"start_time", start_time>>,
                                  <<"end_time", end_time>> >>)), None)

get_user_order_transactions(market, market_type, order_id, page, limit) ==
    Forward("get_user_order_transactions", <<"GET">>, <<"/spot/order-deals">>,
            PyDict(<< <<"market", market>>, <<"market_type", market_type>>,
                      <<"order_id", order_id>>, <<"page", page>>, <<"limit", limit>> >>), None)

get_market_depth(market, limit, interval) ==
    Forward("get_market_depth", <<"GET">>, <<"/spot/depth">>,
            PyDict(<< <<"market", market>>, <<"limit", limit>>, <<"interval", interval>> >>), None)

get_market_depth_futures(market, limit, interval) ==
    Forward("get_market_depth_futures", <<"GET">>, <<"/futures/depth">>,
            PyDict(<< <<"market", market>>, <<"limit", limit>>, <<"interval", interval>> >>), None)

\* a slip: the query parameters in another order
get_market_dealsLastIdFirst(market, limit, last_id) ==
    Forward("get_market_deals", <<"GET">>, <<"/spot/deals">>,
            PyDict(<< <<"market", market>>, <<"last_id", last_id>>, <<"limit", limit>> >>), None)

get_market_deals(market, limit, last_id) ==
    Forward("get_market_deals", <<"GET">>, <<"/spot/deals">>,
            PyDict(<< <<"market", market>>, <<"limit", limit>>, <<"last_id", last_id>> >>), None)

get_market_deals_futures(market, limit, last_id) ==
    Forward("get_market_deals_futures", <<"GET">>, <<"/futures/deals">>,
            PyDict(<< <<"market", market>>, <<"limit", limit>>, <<"last_id", last_id>> >>), None)

get_market_candlesticks(market, limit, period) ==
    Forward("get_market_candlesticks", <<"GET">>, <<"/spot/kline">>,
            PyDict(<< <<"market", market>>, <<"limit", limit>>, <<"period", period>> >>), None)

get_market_candlesticks_futures(market, limit, period, price_type) ==
    Forward("get_market_candlesticks_futures", <<"GET">>, <<"/futures/kline">>,
            PyDict(<< <<"market", market>>, <<"price_type", price_type>>,
                      <<"limit", limit>>, <<"period", period>> >>), None)

get_market_information(market) ==
    Forward("get_market_information", <<"GET">>, <<"/spot/ticker">>, MarketOrAll(market), None)

get_market_information_futures(market) ==
    Forward("get_market_information_futures", <<"GET">>, <<"/futures/ticker">>,
            PyDict(<< <<"market", market>> >>), None)

get_balance ==
    Forward("get_balance", <<"GET">>, <<"/assets/spot/balance">>, None, None)

get_balance_futures ==
    Forward("get_balance_futures", <<"GET">>, <<"/assets/futures/balance">>, None, None)

adjust_position_leverage(market, market_type, margin_mode, leverage) ==
    Forward("adjust_position_leverage", <<"POST">>, <<"/futures/adjust-position-leverage">>, None,
            PyDict(<< <<"market", market>>, <<"market_type", market_type>>,
                      <<"margin_mode", margin_mode>>, <<"leverage", leverage>> >>))

get_current_position(market, market_type, page, limit) ==
    Forward("get_current_position", <<"GET">>, <<"/futures/pending-position">>,
            PyDict(<< <<"market", market>>, <<"market_type", market_type>>,
                      <<"page", page>>, <<"limit", limit>> >>), None)

\* a slip: the order routed by its market type
place_orderRoutedByMarketType(market, market_type, side, order_type, amount, price, ccy, client_id, is_hide, stp_mode) ==
    Forward("place_order", <<"POST">>,
            IF market_type = PyStr("FUTURES") THEN <<"/futures/order">> ELSE <<"/spot/order">>,
            None,
            PyDict(<< <<"market", market>>, <<"market_type", market_type>>, <<"side", side>>,
                      <<"type", order_type>>, <<"amount", amount>>, <<"is_hide", is_hide>> >>
                   \o IfNotNone(<< <<"price", price>>, <<"ccy", ccy>>,
                                   <<"client_id", client_id>>, <<"stp_mode", stp_mode>> >>)))

place_order(market, market_type, side, order_type, amount, price, ccy, client_id, is_hide, stp_mode) ==
    Forward("place_order", <<"POST">>, <<"/spot/order">>, None,
            PyDict(<< <<"market", market>>, <<"market_type", market_type>>, <<"side", side>>,
                      <<"type", order_type>>, <<"amount", amount>>, <<"is_hide", is_hide>> >>
                   \o IfNotNone(<< <<"price", price>>, <<"ccy", ccy>>,
                                   <<"client_id", client_id>>, <<"stp_mode", stp_mode>> >>)))

place_order_futures(market, market_type, side, order_type, amount, price, client_id, is_hide, stp_mode) ==
    Forward("place_order_futures", <<"POST">>, <<"/futures/order">>, None,
            PyDict(<< <<"market", market>>, <<"market_type", market_type>>, <<"side", side>>,
                      <<"type", order_type>>, <<"amount", amount>>, <<"is_hide", is_hide>> >>
                   \o IfNotNone(<< <<"price", price>>, <<"client_id", client_id>>,
                                   <<"stp_mode", stp_mode>> >>)))

place_stop_order(market, market_type, side, order_type, amount, trigger_price, price, ccy, client_id, is_hide, stp_mode) ==
    Forward("place_stop_order", <<"POST">>, <<"/spot/stop-order">>, None,
            PyDict(<< <<"market", market>>, <<"market_type", market_type>>, <<"side", side>>,
                      <<"type", order_type>>, <<"amount", amount>>,
                      <<"trigger_price", trigger_price>>, <<"is_hide", is_hide>> >>
                   \o IfNotNone(<< <<"price", price>>, <<"ccy", ccy>>,
                                   <<"client_id", client_id>>, <<"stp_mode", stp_mode>> >>)))

batch_place_orders(orders) ==
    Forward("batch_place_orders", <<"POST">>, <<"/spot/batch-order">>, None,
            PyDict(<< <<"orders", orders>> >>))

batch_place_stop_orders(orders) ==
    Forward("batch_place_stop_orders", <<"POST">>, <<"/spot/batch-stop-order">>, None,
            PyDict(<< <<"orders", orders>> >>))

query_order_status(market, order_id) ==
    Forward("query_order_status", <<"GET">>, <<"/spot/order-status">>,
            PyDict(<< <<"market", market>>, <<"order_id", order_id>> >>), None)

query_order_status_futures(market, order_id) ==
    Forward("query_order_status_futures", <<"GET">>, <<"/futures/order-status">>,
            PyDict(<< <<"market", market>>, <<"order_id", order_id>> >>), None)

batch_query_order_status(market, order_ids) ==
    Forward("batch_query_order_status", <<"GET">>, <<"/spot/batch-order-status">>,
            PyDict(<< <<"market", market>>, <<"order_ids", order_ids>> >>), None)

get_unfilled_order(market_type, market, side, client_id, page, limit) ==
    Forward("get_unfilled_order", <<"GET">>, <<"/spot/pending-order">>,
            PyDict(<< <<"market_type", market_type>>, <<"page", page>>, <<"limit", limit>> >>
                   \o IfNotNone(<< <<"market", market>>, <<"side", side>>,
                                   <<"client_id", client_id>> >>)), None)

get_filled_order(market_type, market, side, page, limit) ==
    Forward("get_filled_order", <<"GET">>, <<"/spot/finished-order">>,
            PyDict(<< <<"market_type", market_type>>, <<"page", page>>, <<"limit", limit>> >>
                   \o IfNotNone(<< <<"market", market>>, <<"side", side>> >>)), None)

get_unfilled_stop_order(market_type, market, side, page, limit) ==
    Forward("get_unfilled_stop_order", <<"GET">>, <<"/spot/pending-stop-order">>,
            PyDict(<< <<"market_type", market_type>>, <<"page", page>>, <<"limit", limit>> >>
                   \o IfNotNone(<< <<"market", market>>, <<"side", side>> >>)), None)

modify_order(market, market_type, order_id, amount, price) ==
    Forward("modify_order", <<"POST">>, <<"/spot/modify-order">>, None,
            PyDict(<< <<"market", market>>, <<"market_type", market_type>>,
                      <<"order_id", order_id>> >>
                   \o IfNotNone(<< <<"amount", amount>>, <<"price", price>> >>)))

modify_stop_order(market, market_type, stop_id, amount, price, trigger_price) ==
    Forward("modify_stop_order", <<"POST">>, <<"/spot/modify-stop-order">>, None,
            PyDict(<< <<"market", market>>, <<"market_type", market_type>>,
                      <<"stop_id", stop_id>> >>
                   \o IfNotNone(<< <<"amount", amount>>, <<"price", price>>,
                                   <<"trigger_price", trigger_price>> >>)))

cancel_all_orders(market, market_type, side) ==
    Forward("cancel_all_orders", <<"POST">>, <<"/spot/cancel-all-order">>, None,
            PyDict(<< <<"market", market>>, <<"market_type", market_type>> >>
                   \o IfNotNone(<< <<"side", side>> >>)))

\* a slip: the arguments of a POST passed as query parameters
cancel_orderAsQuery(market, market_type, order_id) ==
    Forward("cancel_order", <<"POST">>, <<"/spot/cancel-order">>,
            PyDict(<< <<"market", market>>, <<"market_type", market_type>>,
                      <<"order_id", order_id>> >>), None)

cancel_order(market, market_type, order_id) ==
    Forward("cancel_order", <<"POST">>, <<"/spot/cancel-order">>, None,
            PyDict(<< <<"market", market>>, <<"market_type", market_type>>,
                      <<"order_id", order_id>> >>))

cancel_stop_order(market, market_type, stop_id) ==
    Forward("cancel_stop_order", <<"POST">>, <<"/spot/cancel-stop-order">>, None,
            PyDict(<< <<"market", market>>, <<"market_type", market_type>>,
                      <<"stop_id", stop_id>> >>))

cancel_batch_orders(market, order_ids) ==
    Forward("cancel_batch_orders", <<"POST">>, <<"/spot/cancel-batch-order">>, None,
            PyDict(<< <<"market", market>>, <<"order_ids", order_ids>> >>))

cancel_batch_stop_orders(market, stop_ids) ==
    Forward("cancel_batch_stop_orders", <<"POST">>, <<"/spot/cancel-batch-stop-order">>, None,
            PyDict(<< <<"market", market>>, <<"stop_ids", stop_ids>> >>))

cancel_order_by_client_id(market, market_type, client_id) ==
    Forward("cancel_order_by_client_id", <<"POST">>, <<"/spot/cancel-order-by-client-id">>, None,
            PyDict(<< <<"market", market>>, <<"market_type", market_type>>,
                      <<"client_id", client_id>> >>))

cancel_stop_order_by_client_id(market, market_type, client_id) ==
    Forward("cancel_stop_order_by_client_id", <<"POST">>,
            <<"/spot/cancel-stop-order-by-client-id">>, None,
            PyDict(<< <<"market", market>>, <<"market_type", market_type>>,
                      <<"client_id", client_id>> >>))

close_position_futures(market, market_type, order_type, price, amount, client_id, is_hide, stp_mode) ==
    Forward("close_position_futures", <<"POST">>, <<"/futures/close-position">>, None,
            PyDict(<< <<"market", market>>, <<"market_type", market_type>>,
                      <<"type", order_type>>, <<"is_hide", is_hide>> >>
                   \o IfNotNone(<< <<"price", price>>, <<"amount", amount>>,
                                   <<"client_id", client_id>>, <<"stp_mode", stp_mode>> >>)))

(***************************************************************************)
(* The inputs the model draws from.                                        *)
(***************************************************************************)
Threads == {"t1", "t2"}
Clients == {"c1", "c2"}
AccessIds == {<<"AK1">>, <<"AK2">>}
SecretKeys == {<<"SK1">>, <<"SK2">>}

Methods == {<<"GET">>, <<"get">>, <<"Post">>}
Endpoints == {<<"/spot/market">>, <<"/spot/order">>}
Mappings ==
    { None,
      PyDict(<<>>),
      PyDict(<< <<"market", PyStr("BTCUSDT")>>, <<"limit", PyInt(100)>> >>),
      PyDict(<< <<"market", PyStr("<U+20BF>")>>, <<"is_hide", PyBool(FALSE)>> >>) }

MarketLists == {PyStr(""), PyStr("BTCUSDT,ETHUSDT"), PyStr("<U+20BF>")}
Optional(v) == {None, v}

BTC == PyStr("BTCUSDT")
SPOT == PyStr("SPOT")
FUTURES == PyStr("FUTURES")
Orders == PyList(<< PyDict(<< <<"market", BTC>>, <<"side", PyStr("buy")>> >>) >>)
Ids == PyList(<<PyInt(13400), PyInt(13401)>>)

MarketDataCalls ==
    {get_market_status(m) : m \in MarketLists}
    \cup {get_market_transactions(BTC, PyInt(100), l) : l \in {PyInt(0), PyInt(7)}}
    \cup {get_market_index(m) : m \in {PyStr(""), BTC}}
    \cup {get_market_depth(BTC, PyInt(5), PyStr("0.01")),
          get_market_depth_futures(BTC, PyInt(5), PyStr("0.01")),
          get_market_deals(BTC, PyInt(100), PyInt(0)),
          get_market_deals_futures(BTC, PyInt(100), PyInt(0)),
          get_market_candlesticks(BTC, PyInt(10), PyStr("1min")),
          get_market_candlesticks_futures(BTC, PyInt(10), PyStr("1min"), PyStr("latest_price")),
          get_market_information(PyStr("")),
          get_market_information_futures(BTC)}

AccountCalls ==
    {get_user_transactions(BTC, SPOT, side, start, None, PyInt(1), PyInt(10)) :
        side \in Optional(PyStr("buy")), start \in {None, PyInt(0), PyInt(5)}}
    \cup {get_user_order_transactions(BTC, SPOT, PyInt(13400), PyInt(1), PyInt(10)),
          get_balance,
          get_balance_futures,
          adjust_position_leverage(BTC, FUTURES, PyStr("cross"), PyInt(3)),
          get_current_position(BTC, FUTURES, PyInt(1), PyInt(100)),
          query_order_status(BTC, PyInt(13400)),
          query_order_status_futures(BTC, PyInt(13400)),
          batch_query_order_status(BTC, PyStr("13400,13401"))}
    \cup {get_unfilled_order(SPOT, m, None, cid, PyInt(1), PyInt(10)) :
            m \in Optional(BTC), cid \in Optional(PyStr("id1"))}
    \cup {get_filled_order(SPOT, None, side, PyInt(1), PyInt(10)) : side \in Optional(PyStr("sell"))}
    \cup {get_unfilled_stop_order(SPOT, m, None, PyInt(1), PyInt(10)) : m \in Optional(BTC)}

OrderCalls ==
    {place_order(BTC, mt, PyStr("buy"), PyStr("limit"), PyStr("0.5"), price, None, cid,
                 PyBool(FALSE), None) :
        mt \in {SPOT, FUTURES}, price \in Optional(PyStr("30000")),
        cid \in Optional(PyStr("<U+00E9>"))}
    \cup {place_order_futures(BTC, FUTURES, PyStr("buy"), PyStr("market"), PyStr("0.5"),
                              None, None, ih, stp) :
            ih \in {PyBool(FALSE), PyBool(TRUE)}, stp \in Optional(PyStr("ct"))}
    \cup {place_stop_order(BTC, SPOT, PyStr("sell"), PyStr("limit"), PyStr("0.5"), PyStr("29000"),
                           price, ccy, None, PyBool(FALSE), None) :
            price \in Optional(PyStr("30000")), ccy \in Optional(PyStr("USDT"))}
    \cup {close_position_futures(BTC, FUTURES, PyStr("market"), None, amount, None,
                                 PyBool(FALSE), None) : amount \in Optional(PyStr("0.5"))}
    \cup {batch_place_orders(Orders),
          batch_place_stop_orders(Orders),
          modify_order(BTC, SPOT, PyInt(13400), PyStr("0.7"), None),
          modify_stop_order(BTC, SPOT, PyInt(13400), None, PyStr("31000"), PyStr("29500")),
          cancel_order(BTC, SPOT, PyInt(13400)),
          cancel_stop_order(BTC, SPOT, PyInt(13400)),
          cancel_batch_orders(BTC, Ids),
          cancel_batch_stop_orders(BTC, Ids),
          cancel_order_by_client_id(BTC, SPOT, PyStr("id1")),
          cancel_stop_order_by_client_id(BTC, SPOT, PyStr("id1"))}
    \cup {cancel_all_orders(BTC, SPOT, side) : side \in Optional(PyStr("buy"))}

EndpointCalls == MarketDataCalls \cup AccountCalls \cup OrderCalls

\* what the server may answer: any status, a body that is JSON or is not
Responses ==
    {[kind |-> "response", status |-> st, json |-> TRUE, value |-> v] :
        st \in {200, 500}, v \in {PyDict(<< <<"code", PyInt(0)>> >>), None}}
    \cup {[kind |-> "response", status |-> st, json |-> FALSE, value |-> None] : st \in {200, 500}}

(***************************************************************************)
(* The state machine: one call per caller at a time.                       *)
(***************************************************************************)
NoCall == [api |-> "", client |-> "", method |-> <<>>, endpoint |-> <<>>,
           params |-> None, data |-> None]
NoReq == [method |-> <<>>, request_path |-> <<>>, body_str |-> <<>>, prepared_str |-> <<>>,
          timestamp |-> <<>>, signed_str |-> None]
NoHttp == [n |-> 0, method |-> <<>>, url |-> <<>>, headers |-> <<>>, json |-> None]
NoResponse == [kind |-> "none"]
NoOutcome == [response |-> NoResponse, result |-> None, error |-> ""]
NoArgs == [api |-> ""]

Init ==
    /\ \E a \in AccessIds, k \in SecretKeys :
          clients = [c \in Clients |->
                        IF c = "c1" THEN CoinexAPI(<<"AK1">>, <<"SK1">>) ELSE CoinexAPI(a, k)]
    /\ now = 9
    /\ pc = [t \in Threads |-> "idle"]
    /\ call = [t \in Threads |-> NoCall]
    /\ req = [t \in Threads |-> NoReq]
    /\ http = [t \in Threads |-> NoHttp]
    /\ outcome = [t \in Threads |-> NoOutcome]
    /\ noted = None
    /\ args = [t \in Threads |-> NoArgs]

\* _make_request, lines 76-80: upper-case the method, build the request path
MakeRequestEnter(t, c, f) ==
    /\ pc[t] = "idle"
    /\ call' = [call EXCEPT ![t] = [api |-> f.api, client |-> c, method |-> f.method,
                                    endpoint |-> f.endpoint, params |-> f.params,
                                    data |-> f.data]]
    /\ req' = [req EXCEPT ![t] = [NoReq EXCEPT !.method = Upper(f.method),
                                               !.request_path = RequestPath(f.endpoint, f.params)]]
    /\ pc' = [pc EXCEPT ![t] = "sign"]
    /\ UNCHANGED <<clients, now, http, outcome, noted>>

\* a direct call of _make_request(method, endpoint, params, data)
CallMakeRequest(t) ==
    \E c \in Clients, m \in Methods, e \in Endpoints, p \in Mappings, d \in Mappings :
        /\ MakeRequestEnter(t, c, Forward("_make_request", m, e, p, d))
        /\ UNCHANGED args

\* a call of an endpoint method
CallEndpoint(t) ==
    \E c \in Clients, f \in EndpointCalls :
        /\ MakeRequestEnter(t, c, f)
        /\ UNCHANGED args

\* _generate_signature(method, request_path, data)
GenerateSignature(t) ==
    /\ pc[t] = "sign"
    /\ LET self == clients[call[t].client]
           timestamp == GetTimestamp
           body_str == BodyStr(call[t].data)
           prepared_str == PreparedStr(req[t].method, req[t].request_path, body_str, timestamp)
           locals == [req[t] EXCEPT !.timestamp = timestamp, !.body_str = body_str,
                                    !.prepared_str = prepared_str]
       IN IF SignatureRaises(self, prepared_str)
          THEN /\ req' = [req EXCEPT ![t] = locals]
               /\ pc' = [pc EXCEPT ![t] = "raised"]
               /\ outcome' = [outcome EXCEPT ![t].error = "UnicodeEncodeError"]
          ELSE /\ req' = [req EXCEPT ![t] = [locals EXCEPT !.signed_str = SignedStr(self, prepared_str)]]
               /\ pc' = [pc EXCEPT ![t] = "send"]
               /\ UNCHANGED outcome
    /\ UNCHANGED <<clients, now, call, http, noted, args>>

\* a slip: the timestamp written into the caller's body mapping before sending
SendRequestStampingData(t) ==
    /\ pc[t] = "send"
    /\ LET self == clients[call[t].client]
           data == IF call[t].data = None THEN None
                   ELSE PyDict(call[t].data.d \o << <<"timestamp", PyStr(req[t].timestamp[1])>> >>)
       IN /\ http' = [http EXCEPT ![t] =
                        [n |-> http[t].n + 1,
                         method |-> req[t].method,
                         url |-> Url(self, req[t].request_path),
                         headers |-> Headers(self, req[t].signed_str, req[t].timestamp),
                         json |-> data]]
          /\ call' = [call EXCEPT ![t].data = data]
    /\ pc' = [pc EXCEPT ![t] = "wait"]
    /\ UNCHANGED <<clients, now, req, outcome, noted, args>>

\* a slip: the timestamp kept on the client object, where the calls of all its users
\* overwrite it, and read back from there for the header
SendRequestTimestampOnClient(t) ==
    /\ pc[t] = "send"
    /\ \E u \in Threads :
          /\ call[u].client = call[t].client
          /\ req[u].timestamp /= <<>>
          /\ LET self == clients[call[t].client]
             IN http' = [http EXCEPT ![t] =
                           [n |-> http[t].n + 1,
                            method |-> req[t].method,
                            url |-> Url(self, req[t].request_path),
                            headers |-> Headers(self, req[t].signed_str, req[u].timestamp),
                            json |-> call[t].data]]
    /\ pc' = [pc EXCEPT ![t] = "wait"]
    /\ UNCHANGED <<clients, now, call, req, outcome, noted, args>>

\* _make_request, lines 84-92: headers, url, requests.request(method, url, headers, json)
SendRequest(t) ==
    /\ pc[t] = "send"
    /\ LET self == clients[call[t].client]
       IN http' = [http EXCEPT ![t] =
                     [n |-> http[t].n + 1,
                      method |-> req[t].method,
                      url |-> Url(self, req[t].request_path),
                      headers |-> Headers(self, req[t].signed_str, req[t].timestamp),
                      json |-> call[t].data]]
    /\ pc' = [pc EXCEPT ![t] = "wait"]
    /\ UNCHANGED <<clients, now, call, req, outcome, noted, args>>

\* a slip: a failed exchange is tried again
MakeRequestOutcomeRetry(response) ==
    IF response.kind = "error" \/ ~ response.json
    THEN [pc |-> "send", result |-> None, error |-> ""]
    ELSE [pc |-> "returned", result |-> response.value, error |-> ""]

\* a slip: errors caught and None returned, error statuses raised
MakeRequestOutcomeSwallow(response) ==
    IF response.kind = "error" \/ ~ response.json
    THEN [pc |-> "returned", result |-> None, error |-> ""]
    ELSE IF response.status >= 400
    THEN [pc |-> "raised", result |-> None, error |-> "HTTPError"]
    ELSE [pc |-> "returned", result |-> response.value, error |-> ""]

\* lines 92-93: what _make_request does with the result of requests.request
MakeRequestOutcome(response) ==
    IF response.kind = "error"
    THEN [pc |-> "raised", result |-> None, error |-> "RequestException"]
    ELSE IF ~ response.json
    THEN [pc |-> "raised", result |-> None, error |-> "JSONDecodeError"]
    ELSE [pc |-> "returned", result |-> response.value, error |-> ""]

Complete(t, response) ==
    /\ pc[t] = "wait"
    /\ LET o == MakeRequestOutcome(response)
       IN /\ pc' = [pc EXCEPT ![t] = o.pc]
          /\ outcome' = [outcome EXCEPT ![t] =
                            [response |-> response, result |-> o.result, error |-> o.error]]
    /\ UNCHANGED <<clients, now, call, req, http, noted, args>>

\* requests.request raises (connection error, timeout, ...)
RequestFails(t) == Complete(t, [kind |-> "error"])

\* requests.request returns a response; response.json() parses it
ResponseArrives(t) == \E response \in Responses : Complete(t, response)

\* the call is over: the caller has the returned value or the exception
Finish(t) ==
    /\ pc[t] \in {"returned", "raised"}
    /\ pc' = [pc EXCEPT ![t] = "idle"]
    /\ call' = [call EXCEPT ![t] = NoCall]
    /\ req' = [req EXCEPT ![t] = NoReq]
    /\ http' = [http EXCEPT ![t] = NoHttp]
    /\ outcome' = [outcome EXCEPT ![t] = NoOutcome]
    /\ args' = [args EXCEPT ![t] = NoArgs]
    /\ UNCHANGED <<clients, now, noted>>

\* time passes
Tick ==
    /\ now < MaxTime
    /\ now' = now + 1
    /\ UNCHANGED <<clients, pc, call, req, http, outcome, noted, args>>

\* the program as the specification describes it: one caller, no concurrency
Callers == {"t1"}

Next ==
    \/ \E t \in Callers : CallMakeRequest(t)
    \/ \E t \in Callers : CallEndpoint(t)
    \/ \E t \in Callers : GenerateSignature(t)
    \/ \E t \in Callers : SendRequest(t)
    \/ \E t \in Callers : RequestFails(t)
    \/ \E t \in Callers : ResponseArrives(t)
    \/ \E t \in Callers : Finish(t)
    \/ Tick

Spec == Init /\ [][Next]_vars

(***************************************************************************)
(* A second specification, for comparing the signatures of two requests:   *)
(* one request is remembered, and later requests, of either client, are    *)
(* compared with it.                                                       *)
(***************************************************************************)
SigMappings == {None, PyDict(<< <<"market", PyStr("BTCUSDT")>> >>)}

CallToCompare(t) ==
    \E c \in Clients, m \in {<<"GET">>, <<"get">>}, p \in SigMappings, d \in SigMappings :
        /\ MakeRequestEnter(t, c, Forward("_make_request", m, <<"/spot/market">>, p, d))
        /\ UNCHANGED args

\* remember the request that caller t has sent
Note(t) ==
    /\ pc[t] = "wait"
    /\ noted = None
    /\ noted' = [client |-> call[t].client,
                 access_id |-> clients[call[t].client].access_id,
                 secret_key |-> clients[call[t].client].secret_key,
                 method |-> http[t].method,
                 path |-> Tail(http[t].url),
                 body |-> http[t].json,
                 timestamp |-> Header(http[t].headers, "X-COINEX-TIMESTAMP"),
                 signature |-> Header(http[t].headers, "X-COINEX-SIGN")]
    /\ UNCHANGED <<clients, now, pc, call, req, http, outcome, args>>

NextSig ==
    \/ \E t \in Callers : CallToCompare(t)
    \/ \E t \in Callers : GenerateSignature(t)
    \/ \E t \in Callers : SendRequest(t)
    \/ \E t \in Callers : RequestFails(t)
    \/ \E t \in Callers : ResponseArrives(t)
    \/ \E t \in Callers : Finish(t)
    \/ \E t \in Callers : Note(t)
    \/ Tick

SpecSig == Init /\ [][NextSig]_vars

(***************************************************************************)
(* A third specification: calls of endpoint methods with their named       *)
(* arguments recorded, an argument left out by the caller taking the       *)
(* default of the method's signature.                                      *)
(***************************************************************************)
Omitted == [t |-> "omitted"]
Default(v, d) == IF v = Omitted THEN d ELSE v

\* the call of the method a.api with the arguments a
Invoke(a) ==
    CASE a.api = "place_order" ->
            place_order(a.market, a.market_type, a.side, a.order_type, a.amount,
                        Default(a.price, None), Default(a.ccy, None),
                        Default(a.client_id, None), Default(a.is_hide, PyBool(FALSE)),
                        Default(a.stp_mode, None))
      [] a.api = "place_order_futures" ->
            place_order_futures(a.market, a.market_type, a.side, a.order_type, a.amount,
                                Default(a.price, None), Default(a.client_id, None),
                                Default(a.is_hide, PyBool(FALSE)), Default(a.stp_mode, None))
      [] a.api = "place_stop_order" ->
            place_stop_order(a.market, a.market_type, a.side, a.order_type, a.amount,
                             a.trigger_price, Default(a.price, None), Default(a.ccy, None),
                             Default(a.client_id, None), Default(a.is_hide, PyBool(FALSE)),
                             Default(a.stp_mode, None))
      [] a.api = "close_position_futures" ->
            close_position_futures(a.market, a.market_type, a.order_type,
                                   Default(a.price, None), Default(a.amount, None),
                                   Default(a.client_id, None),
                                   Default(a.is_hide, PyBool(FALSE)), Default(a.stp_mode, None))
      [] a.api = "get_user_transactions" ->
            get_user_transactions(a.market, a.market_type, Default(a.side, None),
                                  Default(a.start_time, None), Default(a.end_time, None),
                                  Default(a.page, PyInt(1)), Default(a.limit, PyInt(10)))
      [] a.api = "get_market_transactions" ->
            get_market_transactions(a.market, Default(a.limit, PyInt(100)),
                                    Default(a.last_id, PyInt(0)))
      [] a.api = "get_market_deals" ->
            get_market_deals(a.market, Default(a.limit, PyInt(100)),
                             Default(a.last_id, PyInt(0)))
      [] a.api = "cancel_order" ->
            cancel_order(a.market, a.market_type, a.order_id)

Given(v) == {Omitted, v}

OrderArgs ==
    {[api |-> "place_order", market |-> BTC, market_type |-> SPOT, side |-> PyStr("buy"),
      order_type |-> PyStr("limit"), amount |-> PyStr("0.5"), price |-> price, ccy |-> ccy,
      client_id |-> cid, is_hide |-> ih, stp_mode |-> stp] :
        price \in {Omitted, PyStr(""), PyStr("30000")}, ccy \in Given(PyStr("USDT")),
        cid \in Given(PyStr("id1")), ih \in Given(PyBool(TRUE)), stp \in {Omitted, None, PyStr("ct")}}
    \cup
    {[api |-> "place_order_futures", market |-> BTC, market_type |-> FUTURES,
      side |-> PyStr("sell"), order_type |-> PyStr("market"), amount |-> PyStr("0.5"),
      price |-> price, client_id |-> cid, is_hide |-> ih, stp_mode |-> stp] :
        price \in Given(PyStr("30000")), cid \in {Omitted, PyStr(""), PyStr("id1")},
        ih \in Given(PyBool(FALSE)), stp \in Given(PyStr("cm"))}
    \cup
    {[api |-> "place_stop_order", market |-> BTC, market_type |-> SPOT, side |-> PyStr("sell"),
      order_type |-> PyStr("limit"), amount |-> PyStr("0.5"), trigger_price |-> PyStr("29000"),
      price |-> price, ccy |-> ccy, client_id |-> cid, is_hide |-> Omitted, stp_mode |-> stp] :
        price \in Given(PyStr("30000")), ccy \in Given(PyStr("USDT")),
        cid \in Given(PyStr("id1")), stp \in Given(PyStr("both"))}
    \cup
    {[api |-> "close_position_futures", market |-> BTC, market_type |-> FUTURES,
      order_type |-> PyStr("market"), price |-> price, amount |-> amount, client_id |-> cid,
      is_hide |-> Omitted, stp_mode |-> stp] :
        price \in Given(PyStr("30000")), amount \in {Omitted, None, PyStr("0.5")},
        cid \in Given(PyStr("id1")), stp \in Given(PyStr("ct"))}

UserDealsArgs ==
    {[api |-> "get_user_transactions", market |-> BTC, market_type |-> SPOT, side |-> side,
      start_time |-> st, end_time |-> en, page |-> Omitted, limit |-> Omitted] :
        side \in {Omitted, None, PyStr("buy")}, st \in {Omitted, PyInt(0), PyInt(5)},
        en \in {Omitted, PyInt(0), PyInt(7)}}

ArgCalls == OrderArgs \cup UserDealsArgs

\* a call of an endpoint method, its arguments recorded
CallWithArgs(t) ==
    \E c \in Clients, a \in ArgCalls :
        /\ MakeRequestEnter(t, c, Invoke(a))
        /\ args' = [args EXCEPT ![t] = a]

NextArgs ==
    \/ \E t \in Callers : CallWithArgs(t)
    \/ \E t \in Callers : GenerateSignature(t)
    \/ \E t \in Callers : SendRequest(t)
    \/ \E t \in Callers : RequestFails(t)
    \/ \E t \in Callers : ResponseArrives(t)
    \/ \E t \in Callers : Finish(t)
    \/ Tick

SpecArgs == Init /\ [][NextArgs]_vars

(***************************************************************************)
(* Two threads that share one CoinexAPI object, their calls interleaved.   *)
(* Everything a call computes is local to it (lines 55-63, 76-91); what    *)
(* the calls share is the object's two attributes, which are only read,    *)
(* and the clock.                                                          *)
(***************************************************************************)
SharedClient == "c1"

DealsArgs ==
    {[api |-> api, market |-> BTC, limit |-> limit, last_id |-> last_id] :
        api \in {"get_market_transactions", "get_market_deals"},
        limit \in Given(PyInt(5)), last_id \in Given(PyInt(7))}

CancelArgs ==
    {[api |-> "cancel_order", market |-> BTC, market_type |-> SPOT, order_id |-> PyInt(7)]}

SharedCalls == DealsArgs \cup CancelArgs

\* a thread calls an endpoint method of the shared object
CallOnSharedClient(t) ==
    \E a \in SharedCalls :
        /\ MakeRequestEnter(t, SharedClient, Invoke(a))
        /\ args' = [args EXCEPT ![t] = a]

NextConc ==
    \/ \E t \in Threads : CallOnSharedClient(t)
    \/ \E t \in Threads : GenerateSignature(t)
    \/ \E t \in Threads : SendRequest(t)
    \/ \E t \in Threads : RequestFails(t)
    \/ \E t \in Threads : ResponseArrives(t)
    \/ \E t \in Threads : Finish(t)
    \/ Tick

SpecConc == Init /\ [][NextConc]_vars

(***************************************************************************)
(* Utils.timestamp_to_strdatetime, and a specification that calls it.      *)
(***************************************************************************)
\* datetime.datetime.fromtimestamp(timestamp): the local civil time of a timestamp in
\* seconds, utcoffset being the offset of the local time zone in seconds
FromTimestamp(timestamp, utcoffset) ==
    LET local == timestamp + utcoffset
        days == local \div 86400
        secs == local % 86400
        z == days + 719468
        era == z \div 146097
        doe == z - era * 146097
        yoe == (doe - doe \div 1460 + doe \div 36524 - doe \div 146096) \div 365
        doy == doe - (365 * yoe + yoe \div 4 - yoe \div 100)
        mp == (5 * doy + 2) \div 153
        month == IF mp < 10 THEN mp + 3 ELSE mp - 9
    IN [year |-> yoe + era * 400 + (IF month <= 2 THEN 1 ELSE 0),
        month |-> month,
        day |-> doy - (153 * mp + 2) \div 5 + 1,
        hour |-> secs \div 3600,
        minute |-> (secs % 3600) \div 60,
        second |-> secs % 60]

\* a number written with two digits
TwoDigits(n) == <<DigitTok(n \div 10), DigitTok(n % 10)>>

RECURSIVE Strftime(_, _)
\* dt.strftime(format), the format given piece by piece
Strftime(format, dt) ==
    IF Len(format) = 0 THEN <<>>
    ELSE (CASE format[1] = "%Y" -> Digits(dt.year)
            [] format[1] = "%m" -> TwoDigits(dt.month)
            [] format[1] = "%d" -> TwoDigits(dt.day)
            [] format[1] = "%H" -> TwoDigits(dt.hour)
            [] format[1] = "%M" -> TwoDigits(dt.minute)
            [] format[1] = "%S" -> TwoDigits(dt.second)
            [] OTHER -> <<format[1]>>)
         \o Strftime(Tail(format), dt)

\* Utils.timestamp_to_strdatetime(timestamp), in a time zone of offset utcoffset
timestamp_to_strdatetime(timestamp, utcoffset) ==
    Strftime(<<"%Y", "-", "%m", "-", "%d", " ", "%H", ":", "%M", ":", "%S">>,
             FromTimestamp(timestamp, utcoffset))

\* days since 1970-01-01 and seconds of the day the model converts, and the time zones
StampDays == {0, 58, 59, 364, 365, 789, 790, 10956, 11016, 19722}
StampSeconds == {0, 1, 59, 60, 3599, 3600, 43200, 86399}
UtcOffsets == {0, 12600, 0 - 18000}

\* a call of Utils.timestamp_to_strdatetime
TimestampToStrdatetime(t) ==
    /\ pc[t] = "idle"
    /\ \E d \in StampDays, sec \in StampSeconds, off \in UtcOffsets :
          /\ args' = [args EXCEPT ![t] = [api |-> "timestamp_to_strdatetime",
                                          timestamp |-> d * 86400 + sec, utcoffset |-> off]]
          /\ outcome' = [outcome EXCEPT ![t].result =
                            [t |-> "str",
                             text |-> timestamp_to_strdatetime(d * 86400 + sec, off)]]
    /\ pc' = [pc EXCEPT ![t] = "returned"]
    /\ UNCHANGED <<clients, now, call, req, http, noted>>

NextUtils ==
    \/ \E t \in Callers : TimestampToStrdatetime(t)
    \/ \E t \in Callers : Finish(t)

SpecUtils == Init /\ [][NextUtils]_vars

(***************************************************************************)
(* Properties.                                                             *)
(***************************************************************************)
InCall(t) == pc[t] /= "idle"
Signed(t) == req[t].signed_str /= None
Sent(t) == http[t].n > 0
Self(t) == clients[call[t].client]
\* the message that was given to the HMAC
SignedMessage(t) == req[t].signed_str.hex.msg.latin1

RECURSIVE Joined(_, _)
\* the texts `parts`, in order, with `sep` between neighbours
Joined(parts, sep) ==
    IF Len(parts) = 0 THEN <<>>
    ELSE IF Len(parts) = 1 THEN parts[1]
    ELSE Joined(SubSeq(parts, 1, Len(parts) - 1), sep) \o sep \o parts[Len(parts)]

\* C1: the request path is "/v2" + endpoint; when the params mapping is non-empty it is
\* followed by "?" and the key=value pairs in the mapping's insertion order joined by "&",
\* each value as its plain text; when params is None or empty there is no "?".
C1_RequestPath ==
    \A t \in Threads : InCall(t) =>
        LET p == call[t].params
            pairs == IF p = None THEN <<>>
                     ELSE [i \in 1..Len(p.d) |-> <<p.d[i][1]>> \o <<"=">> \o Format(p.d[i][2])]
        IN IF Len(pairs) = 0
           THEN /\ req[t].request_path = <<"/v2">> \o call[t].endpoint
                /\ "?" \notin Range(req[t].request_path)
           ELSE req[t].request_path
                    = <<"/v2">> \o call[t].endpoint \o <<"?">> \o Joined(pairs, <<"&">>)

\* C1 witness: a call whose params keys are not in alphabetical order, with its path built
C1_Witness ==
    \E t \in Threads :
        /\ call[t].api = "get_market_transactions"
        /\ req[t].request_path = <<"/v2", "/spot/deals", "?", "market", "=", "BTCUSDT", "&",
                                   "limit", "=", "1", "0", "0", "&", "last_id", "=", "7">>

\* C2: what is signed is METHOD + path-with-query + body string + timestamp string, in this
\* order with nothing between, METHOD being the caller's method in upper case.
C2_SignableString ==
    \A t \in Threads : Signed(t) =>
        /\ SignedMessage(t)
             = req[t].method \o req[t].request_path \o req[t].body_str \o req[t].timestamp
        /\ call[t].method \in {<<"GET">>, <<"get">>, <<"Get">>} => req[t].method = <<"GET">>
        /\ call[t].method \in {<<"POST">>, <<"post">>, <<"Post">>} => req[t].method = <<"POST">>
        /\ req[t].method \in {<<"GET">>, <<"POST">>}

\* C2 witness: a lower-case method, a query and a body, signed
C2_Witness ==
    \E t \in Threads :
        /\ pc[t] = "send"
        /\ call[t].method = <<"get">>
        /\ call[t].params = PyDict(<< <<"market", PyStr("BTCUSDT")>>, <<"limit", PyInt(100)>> >>)
        /\ call[t].data = call[t].params
        /\ SignedMessage(t) =
             <<"GET", "/v2", "/spot/market", "?", "market", "=", "BTCUSDT", "&", "limit", "=",
               "1", "0", "0", "{", "\"", "market", "\"", ": ", "\"", "BTCUSDT", "\"", ", ",
               "\"", "limit", "\"", ": ", "1", "0", "0", "}">> \o req[t].timestamp

\* C3: the body string is the JSON serialization of the body mapping when one is passed
\* as data, and empty when data is absent.
C3_BodyString ==
    \A t \in Threads : Signed(t) =>
        req[t].body_str = (IF call[t].data /= None THEN JsonDumps(call[t].data) ELSE <<>>)

\* C4: a sent request has exactly the four headers: the client's access id, the signature
\* computed for this request, the timestamp and the JSON content type; the timestamp
\* header is the timestamp that ends the signed message.
C4_Headers ==
    \A t \in Threads : Sent(t) =>
        LET h == http[t].headers
            ts == Header(h, "X-COINEX-TIMESTAMP")
            sig == Header(h, "X-COINEX-SIGN")
        IN /\ Len(h) = 4
           /\ {h[i][1] : i \in 1..4}
                = {"X-COINEX-KEY", "X-COINEX-SIGN", "X-COINEX-TIMESTAMP", "Content-Type"}
           /\ Header(h, "X-COINEX-KEY") = Self(t).access_id
           /\ sig = req[t].signed_str
           /\ sig.hex.msg.latin1
                = req[t].method \o req[t].request_path \o req[t].body_str \o ts
           /\ Header(h, "Content-Type") = <<"application/json; charset=utf-8">>

\* C4 witness: a request sent after the clock moved on from the time it was signed
C4_Witness ==
    \E t \in Threads :
        /\ Sent(t)
        /\ Header(http[t].headers, "X-COINEX-TIMESTAMP") = <<"9">>
        /\ now = 10

\* C5: the URL is BASE_URL followed by the path with its query, and the method and the
\* path-with-query given to the HTTP call are the ones that were signed.
C5_Url ==
    \A t \in Threads : Sent(t) =>
        /\ Head(http[t].url) = "https://api.coinex.com"
        /\ Tail(http[t].url) = req[t].request_path
        /\ ("?" \in Range(http[t].url)) = Truthy(call[t].params)
        /\ SignedMessage(t)
             = http[t].method \o Tail(http[t].url) \o req[t].body_str \o req[t].timestamp

\* C5 witness: a sent request whose URL has a query string
C5_Witness ==
    \E t \in Threads :
        /\ Sent(t)
        /\ http[t].method = <<"GET">>
        /\ http[t].url = <<"https://api.coinex.com", "/v2", "/spot/market", "?", "market", "=",
                           "BTCUSDT,ETHUSDT">>

\* C6: two requests with the same secret key, method, path-with-query, body mapping and
\* timestamp carry the same signature, whatever their access ids and whatever was called
\* before.
C6_SignatureFunction ==
    \A t \in Threads : (Sent(t) /\ noted /= None) =>
        ( ( /\ Self(t).secret_key = noted.secret_key
            /\ http[t].method = noted.method
            /\ Tail(http[t].url) = noted.path
            /\ http[t].json = noted.body
            /\ Header(http[t].headers, "X-COINEX-TIMESTAMP") = noted.timestamp )
          => Header(http[t].headers, "X-COINEX-SIGN") = noted.signature )

\* C6 witness: a request of the other client, with another access id and the same secret
\* key, equal to the remembered request in method, path, body and timestamp
C6_Witness ==
    \E t \in Threads :
        /\ Sent(t)
        /\ noted /= None
        /\ call[t].client /= noted.client
        /\ Self(t).access_id /= noted.access_id
        /\ Self(t).secret_key = noted.secret_key
        /\ http[t].method = noted.method
        /\ Tail(http[t].url) = noted.path
        /\ http[t].json = noted.body
        /\ http[t].json /= None
        /\ Header(http[t].headers, "X-COINEX-TIMESTAMP") = noted.timestamp
        /\ Header(http[t].headers, "X-COINEX-SIGN") = noted.signature

\* C7: the secret key is sent nowhere: it is in no part of the URL, of the key, timestamp
\* and content-type headers, or of the body; it is the key of the HMAC of the signature
\* header and no part of the signed message.
C7_SecretNotSent ==
    \A t \in Threads : Sent(t) =>
        LET secret == Range(Self(t).secret_key)
            h == http[t].headers
            body == IF http[t].json = None THEN <<>> ELSE JsonDumps(http[t].json)
        IN /\ secret \cap Range(http[t].url) = {}
           /\ secret \cap Range(http[t].method) = {}
           /\ \A name \in {"X-COINEX-KEY", "X-COINEX-TIMESTAMP", "Content-Type"} :
                  secret \cap Range(Header(h, name)) = {}
           /\ secret \cap Range(body) = {}
           /\ Header(h, "X-COINEX-SIGN").hex.key.latin1 = Self(t).secret_key
           /\ secret \cap Range(Header(h, "X-COINEX-SIGN").hex.msg.latin1) = {}

\* C7 witness: an endpoint method's request with a body, sent and signed with the secret
C7_Witness ==
    \E t \in Threads :
        /\ Sent(t)
        /\ call[t].api = "place_order"
        /\ http[t].json /= None
        /\ Header(http[t].headers, "X-COINEX-SIGN").hex.key.latin1 = <<"SK1">>

\* C8 as stated: a call that has ended, by returning or by raising, made exactly one
\* HTTP request.
C8_ExactlyOneRequest ==
    \A t \in Threads : pc[t] \in {"returned", "raised"} => http[t].n = 1

\* C8 as amended: a call makes at most one HTTP request; exactly one once it has reached
\* the HTTP call, also when that call failed or its response was not JSON; none before,
\* and none at all when signing raised.
C8_AtMostOneRequest ==
    \A t \in Threads :
        /\ http[t].n <= 1
        /\ pc[t] \in {"wait", "returned"} => http[t].n = 1
        /\ pc[t] = "raised" =>
              http[t].n = (IF outcome[t].error = "UnicodeEncodeError" THEN 0 ELSE 1)
        /\ pc[t] \in {"idle", "sign", "send"} => http[t].n = 0

\* C8 witness: a call that ended with a failed HTTP request or an unparsable response
\* after one request
C8_Witness ==
    \E t \in Threads :
        /\ pc[t] = "raised"
        /\ outcome[t].error \in {"RequestException", "JSONDecodeError"}
        /\ http[t].n = 1

\* C9: a failure of the HTTP call and a response that is not JSON end the call with the
\* library's error, never with a returned value; a JSON response is returned as parsed,
\* whatever its status.
C9_ErrorsPropagate ==
    \A t \in Threads :
        LET r == outcome[t].response
        IN /\ r.kind = "error" =>
                pc[t] = "raised" /\ outcome[t].error = "RequestException"
           /\ (r.kind = "response" /\ ~ r.json) =>
                pc[t] = "raised" /\ outcome[t].error = "JSONDecodeError"
           /\ (r.kind = "response" /\ r.json) =>
                pc[t] = "returned" /\ outcome[t].result = r.value /\ outcome[t].error = ""
           /\ pc[t] = "returned" => (r.kind = "response" /\ r.json)

\* C9 witness: a JSON response with status 500 returned as a value
C9_Witness ==
    \E t \in Threads :
        /\ pc[t] = "returned"
        /\ outcome[t].response.status = 500
        /\ outcome[t].result = PyDict(<< <<"code", PyInt(0)>> >>)

\* C10: no step changes a client's fields, and no step of a call changes the params or
\* data mapping the caller passed.
C10_NoStateChange ==
    [][ /\ clients' = clients
        /\ \A c \in Clients : clients'[c].BASE_URL = <<"https://api.coinex.com">>
        /\ \A t \in Threads : (InCall(t) /\ pc'[t] /= "idle") =>
              (call'[t].params = call[t].params /\ call'[t].data = call[t].data) ]_vars

\* C10 witness: a failed call with a body and a query, after its request was sent
C10_Witness ==
    \E t \in Threads :
        /\ pc[t] = "raised"
        /\ Sent(t)
        /\ Truthy(call[t].params)
        /\ Truthy(call[t].data)
        /\ clients["c1"] = CoinexAPI(<<"AK1">>, <<"SK1">>)

\* the keys of a serialized JSON object, in the order they are written
JsonKeys(body) ==
    LET at == SelectSeq([i \in 1..Len(body) |-> i],
                        LAMBDA i : /\ i > 1
                                   /\ i + 2 <= Len(body)
                                   /\ body[i - 1] = "\""
                                   /\ body[i + 1] = "\""
                                   /\ body[i + 2] = ": ")
    IN [j \in 1..Len(at) |-> body[at[j]]]

\* the keys an order method always sends, and the optional ones, in the order of the source
MandatoryKeys(api) ==
    CASE api = "place_order" -> <<"market", "market_type", "side", "type", "amount", "is_hide">>
      [] api = "place_order_futures" ->
            <<"market", "market_type", "side", "type", "amount", "is_hide">>
      [] api = "place_stop_order" ->
            <<"market", "market_type", "side", "type", "amount", "trigger_price", "is_hide">>
      [] api = "close_position_futures" -> <<"market", "market_type", "type", "is_hide">>
OptionalKeys(api) ==
    CASE api = "place_order" -> <<"price", "ccy", "client_id", "stp_mode">>
      [] api = "place_order_futures" -> <<"price", "client_id", "stp_mode">>
      [] api = "place_stop_order" -> <<"price", "ccy", "client_id", "stp_mode">>
      [] api = "close_position_futures" -> <<"price", "amount", "client_id", "stp_mode">>
OrderApis == {"place_order", "place_order_futures", "place_stop_order", "close_position_futures"}

\* the argument that key `k` of the body carries
ArgOfKey(a, k) ==
    IF k = "type" THEN a.order_type
    ELSE IF k = "is_hide" THEN (IF a.is_hide = Omitted THEN PyBool(FALSE) ELSE a.is_hide)
    ELSE a[k]

\* C11: the body of the four order methods has the mandatory keys in their fixed order,
\* then each optional key exactly when its argument is not null, in the fixed order; each
\* key carries its argument; the signed body string has the same keys in the same order;
\* is_hide is always there.
C11_OrderBody ==
    \A t \in Threads : (InCall(t) /\ args[t].api \in OrderApis) =>
        LET a == args[t]
            d == call[t].data.d
            expected == MandatoryKeys(a.api)
                        \o SelectSeq(OptionalKeys(a.api), LAMBDA k : a[k] \notin {Omitted, None})
        IN /\ [i \in 1..Len(d) |-> d[i][1]] = expected
           /\ \A i \in 1..Len(d) : d[i][2] = ArgOfKey(a, d[i][1])
           /\ \E i \in 1..Len(d) : d[i][1] = "is_hide"
           /\ Signed(t) => /\ JsonKeys(req[t].body_str) = expected
                           /\ JsonKeys(SignedMessage(t)) = expected

\* C11 witness: place_order with an empty price, no ccy, a client id and is_hide left at
\* its default, signed
C11_Witness ==
    \E t \in Threads :
        /\ Signed(t)
        /\ args[t].api = "place_order"
        /\ args[t].price = PyStr("")
        /\ args[t].ccy = Omitted
        /\ args[t].is_hide = Omitted
        /\ JsonKeys(req[t].body_str)
             = <<"market", "market_type", "side", "type", "amount", "is_hide", "price",
                 "client_id">>

\* C12: the query of get_user_transactions is market, market_type, page, limit, then
\* side, start_time and end_time, each exactly when its argument is not null (a time of
\* 0 milliseconds included).
C12_UserDealsQuery ==
    \A t \in Threads : (InCall(t) /\ args[t].api = "get_user_transactions") =>
        LET a == args[t]
            p == call[t].params.d
            expected == <<"market", "market_type", "page", "limit">>
                        \o SelectSeq(<<"side", "start_time", "end_time">>,
                                     LAMBDA k : a[k] \notin {Omitted, None})
        IN /\ [i \in 1..Len(p) |-> p[i][1]] = expected
           /\ \A i \in 5..Len(p) : p[i][2] = a[p[i][1]]

DigitToks == {"0", "1", "2", "3", "4", "5", "6", "7", "8", "9"}

\* C13: the string returned by timestamp_to_strdatetime has the format '%Y%m%d %H:%M:%S':
\* eight digits (year, month, day, nothing between them), a space, and hours, minutes and
\* seconds of two digits each with colons between.
C13_DateFormat ==
    \A t \in Threads : (pc[t] = "returned" /\ args[t].api = "timestamp_to_strdatetime") =>
        LET r == outcome[t].result.text
        IN /\ Len(r) = 17
           /\ r[9] = " "
           /\ r[12] = ":"
           /\ r[15] = ":"
           /\ \A i \in (1..17) \ {9, 12, 15} : r[i] \in DigitToks

EndpointCall(t) == InCall(t) /\ call[t].api \notin {"", "_make_request"}

\* the texts of the str values of a mapping
StrValues(m) ==
    IF m = None THEN {}
    ELSE {m.d[i][2].s : i \in {j \in 1..Len(m.d) : m.d[j][2].t = "str"}}

\* C14: the HTTP method and the endpoint path of an endpoint method's request are fixed
\* by the method alone: the same for every argument value (place_order with market type
\* FUTURES goes to /spot/order) and after any earlier calls; no argument is part of the
\* path before the query.
C14_StaticRoute ==
    \A t \in Threads : EndpointCall(t) =>
        /\ \A f \in EndpointCalls :
              f.api = call[t].api =>
                  (f.method = call[t].method /\ f.endpoint = call[t].endpoint)
        /\ req[t].method = call[t].method
        /\ SubSeq(req[t].request_path, 1, 2) = <<"/v2">> \o call[t].endpoint
        /\ call[t].api = "place_order" =>
              (call[t].method = <<"POST">> /\ call[t].endpoint = <<"/spot/order">>)
        /\ call[t].api = "place_order_futures" =>
              (call[t].method = <<"POST">> /\ call[t].endpoint = <<"/futures/order">>)
        /\ Range(call[t].endpoint) \cap (StrValues(call[t].params) \cup StrValues(call[t].data)) = {}
        /\ Sent(t) => /\ http[t].method = call[t].method
                      /\ SubSeq(http[t].url, 1, 3) = BASE_URL \o <<"/v2">> \o call[t].endpoint

\* C14 witness: place_order with market type FUTURES, sent to /spot/order
C14_Witness ==
    \E t \in Threads :
        /\ Sent(t)
        /\ call[t].api = "place_order"
        /\ call[t].data.d[2] = <<"market_type", PyStr("FUTURES")>>
        /\ http[t].url = <<"https://api.coinex.com", "/v2", "/spot/order">>

\* C15: the body string that is signed is the serialization of the body that is
\* transmitted: of the same mapping whenever the request has a JSON body (an empty
\* mapping included), and empty only when no body is transmitted.
C15_SignedBodyIsSentBody ==
    \A t \in Threads : Sent(t) =>
        /\ http[t].json /= None => req[t].body_str = RequestBody(http[t].json)
        /\ req[t].body_str = <<>> => http[t].json = None

\* C16: a GET endpoint method passes no body, so its signed body string is empty and no
\* JSON is sent; a POST endpoint method passes a body and no query parameters, so its
\* request path has no "?".
C16_QueryOrBody ==
    \A t \in Threads : EndpointCall(t) =>
        /\ call[t].method \in {<<"GET">>, <<"POST">>}
        /\ call[t].method = <<"GET">> =>
              /\ call[t].data = None
              /\ Signed(t) => req[t].body_str = <<>>
              /\ Sent(t) => http[t].json = None
        /\ call[t].method = <<"POST">> =>
              /\ call[t].params = None
              /\ Truthy(call[t].data)
              /\ "?" \notin Range(req[t].request_path)
              /\ Sent(t) => "?" \notin Range(http[t].url)

\* C16 witness: a GET endpoint method's request, with a query, signed with an empty body
C16_Witness ==
    \E t \in Threads :
        /\ Sent(t)
        /\ call[t].api = "get_current_position"
        /\ "?" \in Range(http[t].url)
        /\ req[t].body_str = <<>>
        /\ http[t].json = None

\* C17: with the calls of two threads on one client interleaved in any order, each
\* request is consistent with its own call: the signed message is the method, path, body
\* string and timestamp of this call, the X-COINEX-TIMESTAMP header is the timestamp that
\* ends that message, the X-COINEX-SIGN header is the signature of that message, and what
\* is sent is this call's method, path and body.
C17_SelfConsistent ==
    \A t \in Threads :
        /\ Signed(t) =>
              /\ req[t].method = Upper(call[t].method)
              /\ req[t].request_path = RequestPath(call[t].endpoint, call[t].params)
              /\ req[t].body_str = BodyStr(call[t].data)
              /\ SignedMessage(t) = req[t].method \o req[t].request_path
                                      \o req[t].body_str \o req[t].timestamp
              /\ req[t].signed_str.hex.key.latin1 = Self(t).secret_key
        /\ Sent(t) =>
              /\ Header(http[t].headers, "X-COINEX-TIMESTAMP") = req[t].timestamp
              /\ LET ts == Header(http[t].headers, "X-COINEX-TIMESTAMP")
                     m == SignedMessage(t)
                 IN Len(ts) > 0 /\ SubSeq(m, Len(m) - Len(ts) + 1, Len(m)) = ts
              /\ Header(http[t].headers, "X-COINEX-SIGN") = req[t].signed_str
              /\ http[t].method = req[t].method
              /\ http[t].url = BASE_URL \o req[t].request_path
              /\ http[t].json = call[t].data

\* C17 witness: both threads have a request out on the same client, one a GET and one a
\* POST, signed at different times, the later-signed one sent first
C17_Witness ==
    /\ call["t1"].client = call["t2"].client
    /\ pc["t1"] = "send" /\ req["t1"].timestamp = <<"9">> /\ req["t1"].method = <<"GET">>
    /\ pc["t2"] = "wait" /\ req["t2"].timestamp = <<"1", "0">> /\ req["t2"].method = <<"POST">>

\* C18: get_market_transactions and get_market_deals called with the same arguments
\* (given or left to the defaults limit=100, last_id=0) on the same client at the same
\* timestamp make the identical request: GET /v2/spot/deals with the query market, limit,
\* last_id in that order, the same signed message, the same headers, no body.
C18_SameRequest ==
    \A t, u \in Threads :
        (/\ Sent(t) /\ Sent(u)
         /\ args[t].api = "get_market_transactions"
         /\ args[u] = [args[t] EXCEPT !.api = "get_market_deals"]
         /\ call[t].client = call[u].client
         /\ req[t].timestamp = req[u].timestamp)
        => /\ http[t] = http[u]
           /\ req[t] = req[u]
           /\ http[u].method = <<"GET">>
           /\ http[u].json = None
           /\ http[u].url
                = BASE_URL \o <<"/v2", "/spot/deals", "?">>
                  \o <<"market", "=">> \o Format(args[u].market)
                  \o <<"&", "limit", "=">> \o Format(Default(args[u].limit, PyInt(100)))
                  \o <<"&", "last_id", "=">> \o Format(Default(args[u].last_id, PyInt(0)))

\* C18 witness: both methods called with limit and last_id left to their defaults, both
\* requests sent with the same timestamp
C18_Witness ==
    \E t, u \in Threads :
        /\ Sent(t) /\ Sent(u)
        /\ args[t] = [api |-> "get_market_transactions", market |-> BTC,
                      limit |-> Omitted, last_id |-> Omitted]
        /\ args[u] = [api |-> "get_market_deals", market |-> BTC,
                      limit |-> Omitted, last_id |-> Omitted]
        /\ req[t].timestamp = req[u].timestamp
        /\ http[u].url = <<"https://api.coinex.com", "/v2", "/spot/deals", "?",
                            "market", "=", "BTCUSDT", "&", "limit", "=", "1", "0", "0",
                            "&", "last_id", "=", "0">>

====
